---- MODULE Spec2Model ----
(***************************************************************************)
(* The accessible-output shape registry of p5js-node                       *)
(* (src/src/accessibility/outputs.js): the registry ingredients.shapes,    *)
(* its serialized snapshot ingredients.pShapes, the colour state           *)
(* ingredients.colors and the descriptor functions _getMiddle, _getPos,    *)
(* _canvasLocator and _getArea.                                            *)
(*                                                                         *)
(* Numbers.  Draw arguments are integers.  A coordinate that the code      *)
(* obtains by dividing (a centroid) is kept as an exact fraction           *)
(* [n |-> numerator, d |-> denominator], d > 0, and every comparison,      *)
(* floor and round is taken on the exact value.  Over the arguments used   *)
(* here the IEEE-754 double results of the source's expressions are the    *)
(* exact ones (0.4*W and 0.6*W are exact when an argument can reach them). *)
(*                                                                         *)
(* JavaScript indexes from 0 and TLA+ from 1: Arg(args, i) is args[i].     *)
(***************************************************************************)
EXTENDS Integers, Sequences, FiniteSets, TLC

VARIABLES
  shapes,             \* ingredients.shapes: <<[kind, recs]>> in key insertion order
  pShapes,            \* ingredients.pShapes: a JSON text
  colors,             \* ingredients.colors
  _accessibleOutputs, \* the four output flags
  width, height,      \* canvas size
  call,               \* the operation that ran last, with its arguments
  regen,              \* the last operation entered the regeneration branch
  updated,            \* element ids handed to _updateTextOutput/_updateGridOutput by it
  lookups,            \* calls of _rgbColorName made by it
  ops,                \* operations run so far
  generated,          \* the registry the outputs were last regenerated from
  gin, gout,          \* argument and result of a descriptor function applied alone
  _frameRate,         \* the measured frame rate
  _targetFrameRate,   \* the frame rate asked for
  _pixelDensity,      \* the pixel density of the sketch
  ret,                \* what the last environment call returned or threw
  globalThis,         \* typeof _setupDone, setup and draw on the global object; mocha
  instance,           \* p5.instance is set
  fes                 \* misusedAtTopLevelCode, document.readyState, the listeners, the log

progVars == <<shapes, pShapes, colors, _accessibleOutputs, width, height>>
obsVars  == <<call, regen, updated, lookups, ops, generated>>
geomVars == <<gin, gout>>
envVars  == <<_frameRate, _targetFrameRate, _pixelDensity, ret>>
loadVars == <<globalThis, instance, fes>>
vars     == <<shapes, pShapes, colors, _accessibleOutputs, width, height,
              call, regen, updated, lookups, ops, generated, gin, gout,
              _frameRate, _targetFrameRate, _pixelDensity, ret,
              globalThis, instance, fes>>

(***************************************************************************)
(* Bounds of the model.                                                    *)
(***************************************************************************)
MaxOps   == 4       \* operations in one behaviour of Spec
MaxDraws == 1       \* draws in one behaviour of SpecDraw

(***************************************************************************)
(* Arithmetic of the source on exact fractions.                            *)
(***************************************************************************)
Arg(args, i) == args[i + 1]

Q(n, d) == [n |-> n, d |-> d]

Abs(x) == IF x < 0 THEN -x ELSE x

\* Math.round(n / d), d > 0: the nearest integer, a half going up.
Round(n, d) == (2 * n + d) \div (2 * d)

\* Math.floor(n / d), d > 0.
Floor(n, d) == n \div d

\* Math.round(Math.sqrt(n)), n >= 0.
RoundSqrt(n) ==
  CHOOSE r \in 0..(n + 1) :
    /\ 4 * n < (2 * r + 1) * (2 * r + 1)
    /\ (r = 0 \/ (2 * r - 1) * (2 * r - 1) <= 4 * n)

\* this.dist(x1, y1, x2, y2) rounded: the Euclidean distance.
RoundDist(x1, y1, x2, y2) ==
  RoundSqrt((x2 - x1) * (x2 - x1) + (y2 - y1) * (y2 - y1))

(***************************************************************************)
(* The descriptor functions.                                               *)
(***************************************************************************)
noRows == 10
noCols == 10

\* Math.PI as a fraction; an arc's angle arguments are whole quarter turns
\* (0, HALF_PI, PI, PI + HALF_PI, TWO_PI), written as the number of quarters.
PiNum == 355
PiDen == 113

\* Math.cos(q * HALF_PI).toFixed(2) and Math.sin(q * HALF_PI).toFixed(2).
Cos4(q) == CASE q % 4 = 0 -> 1 [] q % 4 = 2 -> -1 [] OTHER -> 0
Sin4(q) == CASE q % 4 = 1 -> 1 [] q % 4 = 3 -> -1 [] OTHER -> 0

\* Kind comparing the two position arguments instead of the two sizes.
KindWrongIndex(f, args) ==
  IF f = "ellipse" /\ Arg(args, 0) = Arg(args, 1) THEN "circle"
  ELSE IF f = "rectangle" /\ Arg(args, 0) = Arg(args, 1) THEN "square"
  ELSE f

\* The reclassification at the head of _accsOutput.
Kind(f, args) ==
  IF f = "ellipse" /\ Arg(args, 2) = Arg(args, 3) THEN "circle"
  ELSE IF f = "rectangle" /\ Arg(args, 2) = Arg(args, 3) THEN "square"
  ELSE f

\* _getMiddle halving the sum of a triangle's vertices instead of taking a third.
GetMiddleTriangleHalf(f, args) ==
  IF f \in {"rectangle", "ellipse", "arc", "circle", "square"}
  THEN <<Q(Round(2 * Arg(args, 0) + Arg(args, 2), 2), 1),
         Q(Round(2 * Arg(args, 1) + Arg(args, 3), 2), 1)>>
  ELSE IF f = "triangle"
  THEN <<Q(Arg(args, 0) + Arg(args, 2) + Arg(args, 4), 2),
         Q(Arg(args, 1) + Arg(args, 3) + Arg(args, 5), 2)>>
  ELSE IF f = "quadrilateral"
  THEN <<Q(Arg(args, 0) + Arg(args, 2) + Arg(args, 4) + Arg(args, 6), 4),
         Q(Arg(args, 1) + Arg(args, 3) + Arg(args, 5) + Arg(args, 7), 4)>>
  ELSE IF f = "line"
  THEN <<Q(Arg(args, 0) + Arg(args, 2), 2), Q(Arg(args, 1) + Arg(args, 3), 2)>>
  ELSE <<Q(Arg(args, 0), 1), Q(Arg(args, 1), 1)>>

_getMiddle(f, args) ==
  IF f \in {"rectangle", "ellipse", "arc", "circle", "square"}
  THEN <<Q(Round(2 * Arg(args, 0) + Arg(args, 2), 2), 1),
         Q(Round(2 * Arg(args, 1) + Arg(args, 3), 2), 1)>>
  ELSE IF f = "triangle"
  THEN <<Q(Arg(args, 0) + Arg(args, 2) + Arg(args, 4), 3),
         Q(Arg(args, 1) + Arg(args, 3) + Arg(args, 5), 3)>>
  ELSE IF f = "quadrilateral"
  THEN <<Q(Arg(args, 0) + Arg(args, 2) + Arg(args, 4) + Arg(args, 6), 4),
         Q(Arg(args, 1) + Arg(args, 3) + Arg(args, 5) + Arg(args, 7), 4)>>
  ELSE IF f = "line"
  THEN <<Q(Arg(args, 0) + Arg(args, 2), 2), Q(Arg(args, 1) + Arg(args, 3), 2)>>
  ELSE <<Q(Arg(args, 0), 1), Q(Arg(args, 1), 1)>>

\* _getPos with the thresholds included in the outer bands (<= and >=).
GetPosInclusive(args, canvasWidth, canvasHeight) ==
  LET x == args[1]
      y == args[2]
      top    == 5 * y.n <= 2 * canvasHeight * y.d
      bottom == 5 * y.n >= 3 * canvasHeight * y.d
  IN IF 5 * x.n <= 2 * canvasWidth * x.d
     THEN (IF top THEN "top left" ELSE IF bottom THEN "bottom left" ELSE "mid left")
     ELSE IF 5 * x.n >= 3 * canvasWidth * x.d
     THEN (IF top THEN "top right" ELSE IF bottom THEN "bottom right" ELSE "mid right")
     ELSE (IF top THEN "top middle" ELSE IF bottom THEN "bottom middle" ELSE "middle")

\* x < 0.4 * canvasWidth is 5x < 2W, x > 0.6 * canvasWidth is 5x > 3W.
_getPos(args, canvasWidth, canvasHeight) ==
  LET x == args[1]
      y == args[2]
      top    == 5 * y.n < 2 * canvasHeight * y.d
      bottom == 5 * y.n > 3 * canvasHeight * y.d
  IN IF 5 * x.n < 2 * canvasWidth * x.d
     THEN (IF top THEN "top left" ELSE IF bottom THEN "bottom left" ELSE "mid left")
     ELSE IF 5 * x.n > 3 * canvasWidth * x.d
     THEN (IF top THEN "top right" ELSE IF bottom THEN "bottom right" ELSE "mid right")
     ELSE (IF top THEN "top middle" ELSE IF bottom THEN "bottom middle" ELSE "middle")

\* _canvasLocator testing locX twice: locY is never coerced.
CanvasLocatorXOnly(args, canvasWidth, canvasHeight) ==
  LET locX == Floor(args[1].n * noRows, args[1].d * canvasWidth)
      locY == Floor(args[2].n * noCols, args[2].d * canvasHeight)
  IN [locX |-> IF locX = noRows THEN locX - 1 ELSE locX,
      locY |-> locY]

_canvasLocator(args, canvasWidth, canvasHeight) ==
  LET locX == Floor(args[1].n * noRows, args[1].d * canvasWidth)
      locY == Floor(args[2].n * noCols, args[2].d * canvasHeight)
  IN [locX |-> IF locX = noRows THEN locX - 1 ELSE locX,
      locY |-> IF locY = noCols THEN locY - 1 ELSE locY]

\* The area of the triangle that closes an OPEN or CHORD arc, times 8:
\* Ax, Ay = x, y; Bx = x + w/2 * cos(start), ...; |Ax(By-Cy) + Bx(Cy-Ay) + Cx(Ay-By)| / 2.
ExtraTriangle8(a) ==
  LET Ax2 == 2 * Arg(a, 0)
      Ay2 == 2 * Arg(a, 1)
      Bx2 == 2 * Arg(a, 0) + Arg(a, 2) * Cos4(Arg(a, 4))
      By2 == 2 * Arg(a, 1) + Arg(a, 3) * Sin4(Arg(a, 4))
      Cx2 == 2 * Arg(a, 0) + Arg(a, 2) * Cos4(Arg(a, 5))
      Cy2 == 2 * Arg(a, 1) + Arg(a, 3) * Sin4(Arg(a, 5))
  IN Abs(Ax2 * (By2 - Cy2) + Bx2 * (Cy2 - Ay2) + Cx2 * (Ay2 - By2))

\* objectArea of an arc as a fraction: quarters * (PI/2) * w * h / 8, plus or
\* minus the closing triangle.
ArcArea(a) ==
  LET quarters == (((Arg(a, 5) - Arg(a, 4)) % 4) + 4) % 4
      base     == Q(quarters * PiNum * Arg(a, 2) * Arg(a, 3), 16 * PiDen)
      extra    == ExtraTriangle8(a)
  IN IF Arg(a, 6) = "open" \/ Arg(a, 6) = "chord"
     THEN IF quarters > 2
          THEN Q(base.n + 2 * PiDen * extra, base.d)
          ELSE Q(base.n - 2 * PiDen * extra, base.d)
     ELSE base

\* ObjectArea with the triangle's expression left signed (no Math.abs).
ObjectAreaSigned(objectType, a) ==
  IF objectType = "arc" THEN ArcArea(a)
  ELSE IF objectType = "ellipse" \/ objectType = "circle"
  THEN Q(314 * Arg(a, 2) * Arg(a, 3), 400)
  ELSE IF objectType = "quadrilateral"
  THEN Q(Abs((Arg(a, 6) + Arg(a, 0)) * (Arg(a, 7) - Arg(a, 1))
             + (Arg(a, 0) + Arg(a, 2)) * (Arg(a, 1) - Arg(a, 3))
             + (Arg(a, 2) + Arg(a, 4)) * (Arg(a, 3) - Arg(a, 5))
             + (Arg(a, 4) + Arg(a, 6)) * (Arg(a, 5) - Arg(a, 7))), 2)
  ELSE IF objectType = "rectangle" \/ objectType = "square"
  THEN Q(Arg(a, 2) * Arg(a, 3), 1)
  ELSE IF objectType = "triangle"
  THEN Q(Arg(a, 0) * (Arg(a, 3) - Arg(a, 5))
         + Arg(a, 2) * (Arg(a, 5) - Arg(a, 1))
         + Arg(a, 4) * (Arg(a, 1) - Arg(a, 3)), 2)
  ELSE Q(0, 1)

\* objectArea as a fraction, by kind.
ObjectArea(objectType, a) ==
  IF objectType = "arc" THEN ArcArea(a)
  ELSE IF objectType = "ellipse" \/ objectType = "circle"
  THEN Q(314 * Arg(a, 2) * Arg(a, 3), 400)
  ELSE IF objectType = "quadrilateral"
  THEN Q(Abs((Arg(a, 6) + Arg(a, 0)) * (Arg(a, 7) - Arg(a, 1))
             + (Arg(a, 0) + Arg(a, 2)) * (Arg(a, 1) - Arg(a, 3))
             + (Arg(a, 2) + Arg(a, 4)) * (Arg(a, 3) - Arg(a, 5))
             + (Arg(a, 4) + Arg(a, 6)) * (Arg(a, 5) - Arg(a, 7))), 2)
  ELSE IF objectType = "rectangle" \/ objectType = "square"
  THEN Q(Arg(a, 2) * Arg(a, 3), 1)
  ELSE IF objectType = "triangle"
  THEN Q(Abs(Arg(a, 0) * (Arg(a, 3) - Arg(a, 5))
             + Arg(a, 2) * (Arg(a, 5) - Arg(a, 1))
             + Arg(a, 4) * (Arg(a, 1) - Arg(a, 3))), 2)
  ELSE Q(0, 1)

\* _getArea with Math.floor in place of Math.round.
GetAreaFloor(objectType, shapeArgs, canvasWidth, canvasHeight) ==
  LET objectArea == ObjectArea(objectType, shapeArgs)
  IN Floor(objectArea.n * 100, objectArea.d * canvasWidth * canvasHeight)

_getArea(objectType, shapeArgs, canvasWidth, canvasHeight) ==
  LET objectArea == ObjectArea(objectType, shapeArgs)
  IN Round(objectArea.n * 100, objectArea.d * canvasWidth * canvasHeight)

(***************************************************************************)
(* Colours.  The RGBA argument of a colour call is an array object;        *)
(* `!==` compares the objects, not their contents.  Objects are numbered,  *)
(* 0 is undefined (no RGBA stored yet), and Levels gives the contents.     *)
(***************************************************************************)
ColorObjs == {1, 2, 3}

Levels(o) == IF o = 3 THEN <<0, 0, 255, 255>> ELSE <<255, 0, 0, 255>>

\* this._rgbColorName(args): the nearest named colour of the contents.
_rgbColorName(o) == IF Levels(o) = <<255, 0, 0, 255>> THEN "red" ELSE "blue"

(***************************************************************************)
(* The record of one draw: the body of _accsOutput up to the store.  For a  *)
(* line the second element handed to _getPos is the array literal [1] for  *)
(* the first endpoint and [3] for the second, which `<` and `>` coerce to  *)
(* the numbers 1 and 3.                                                    *)
(***************************************************************************)
\* Include taking a point's colour from the fill slot.
IncludePointFill(f, args, cols, w, h) ==
  LET middle == _getMiddle(f, args)
  IN IF f = "line"
     THEN LET p1 == _getPos(<<Q(Arg(args, 0), 1), Q(1, 1)>>, w, h)
              p2 == _getPos(<<Q(Arg(args, 2), 1), Q(3, 1)>>, w, h)
          IN [color  |-> cols.stroke,
              length |-> RoundDist(Arg(args, 0), Arg(args, 1), Arg(args, 2), Arg(args, 3)),
              loc    |-> _canvasLocator(middle, w, h),
              pos    |-> IF p1 = p2 THEN "at " \o p1 ELSE "from " \o p1 \o " to " \o p2]
     ELSE IF f = "point"
     THEN [color |-> cols.fill,
           pos   |-> _getPos(middle, w, h),
           loc   |-> _canvasLocator(middle, w, h)]
     ELSE [color |-> cols.fill,
           area  |-> _getArea(f, args, w, h),
           pos   |-> _getPos(middle, w, h),
           loc   |-> _canvasLocator(middle, w, h)]

Include(f, args, cols, w, h) ==
  LET middle == _getMiddle(f, args)
  IN IF f = "line"
     THEN LET p1 == _getPos(<<Q(Arg(args, 0), 1), Q(1, 1)>>, w, h)
              p2 == _getPos(<<Q(Arg(args, 2), 1), Q(3, 1)>>, w, h)
          IN [color  |-> cols.stroke,
              length |-> RoundDist(Arg(args, 0), Arg(args, 1), Arg(args, 2), Arg(args, 3)),
              loc    |-> _canvasLocator(middle, w, h),
              pos    |-> IF p1 = p2 THEN "at " \o p1 ELSE "from " \o p1 \o " to " \o p2]
     ELSE IF f = "point"
     THEN [color |-> cols.stroke,
           pos   |-> _getPos(middle, w, h),
           loc   |-> _canvasLocator(middle, w, h)]
     ELSE [color |-> cols.fill,
           area  |-> _getArea(f, args, w, h),
           pos   |-> _getPos(middle, w, h),
           loc   |-> _canvasLocator(middle, w, h)]

(***************************************************************************)
(* JSON.stringify of a record and of the registry, in property order.      *)
(***************************************************************************)
Quote(s) == "\"" \o s \o "\""

StrLoc(loc) ==
  "{\"locX\":" \o ToString(loc.locX) \o ",\"locY\":" \o ToString(loc.locY) \o "}"

StringifyRecord(r) ==
  IF "length" \in DOMAIN r
  THEN "{\"color\":" \o Quote(r.color) \o ",\"length\":" \o ToString(r.length)
       \o ",\"loc\":" \o StrLoc(r.loc) \o ",\"pos\":" \o Quote(r.pos) \o "}"
  ELSE IF "area" \in DOMAIN r
  THEN "{\"color\":" \o Quote(r.color) \o ",\"area\":" \o ToString(r.area)
       \o ",\"pos\":" \o Quote(r.pos) \o ",\"loc\":" \o StrLoc(r.loc) \o "}"
  ELSE "{\"color\":" \o Quote(r.color)
       \o ",\"pos\":" \o Quote(r.pos) \o ",\"loc\":" \o StrLoc(r.loc) \o "}"

RECURSIVE JoinRecords(_)
JoinRecords(recs) ==
  IF recs = <<>> THEN ""
  ELSE StringifyRecord(Head(recs))
       \o (IF Len(recs) > 1 THEN "," ELSE "") \o JoinRecords(Tail(recs))

RECURSIVE JoinKinds(_)
JoinKinds(sh) ==
  IF sh = <<>> THEN ""
  ELSE Quote(Head(sh).kind) \o ":[" \o JoinRecords(Head(sh).recs) \o "]"
       \o (IF Len(sh) > 1 THEN "," ELSE "") \o JoinKinds(Tail(sh))

Stringify(sh) == "{" \o JoinKinds(sh) \o "}"

(***************************************************************************)
(* The registry: an object whose keys are kinds, in insertion order.       *)
(***************************************************************************)
HasKind(sh, f) == \E i \in 1..Len(sh) : sh[i].kind = f

KindIndex(sh, f) == CHOOSE i \in 1..Len(sh) : sh[i].kind = f

\* shapes[f], or the empty sequence when shapes[f] is undefined.
RecsOf(sh, f) == IF HasKind(sh, f) THEN sh[KindIndex(sh, f)].recs ELSE <<>>

\* Store with the scan stopping at the last record only.
StoreCompareLast(sh, f, include) ==
  IF ~HasKind(sh, f)
  THEN Append(sh, [kind |-> f, recs |-> <<include>>])
  ELSE LET i    == KindIndex(sh, f)
           last == sh[i].recs[Len(sh[i].recs)]
       IN IF StringifyRecord(last) # StringifyRecord(include)
          THEN [sh EXCEPT ![i].recs = Append(@, include)] ELSE sh

\* Store with no scan: every record of a known kind is pushed.
StoreAlwaysPush(sh, f, include) ==
  IF ~HasKind(sh, f)
  THEN Append(sh, [kind |-> f, recs |-> <<include>>])
  ELSE [sh EXCEPT ![KindIndex(sh, f)].recs = Append(@, include)]

\* The store at the end of _accsOutput: a new kind gets [include]; otherwise
\* the kind's records are scanned and include is pushed unless one of them
\* has the same JSON text.  (shapes[f] !== [include] compares with a fresh
\* array and is always true.)
Store(sh, f, include) ==
  IF ~HasKind(sh, f)
  THEN Append(sh, [kind |-> f, recs |-> <<include>>])
  ELSE LET i    == KindIndex(sh, f)
           add  == \A y \in 1..Len(sh[i].recs) :
                     StringifyRecord(sh[i].recs[y]) # StringifyRecord(include)
       IN IF add THEN [sh EXCEPT ![i].recs = Append(@, include)] ELSE sh

(***************************************************************************)
(* The operations.                                                         *)
(***************************************************************************)
cnvId == "defaultCanvas0"

\* UpdateCalls with each label update nested under the flag of its output.
UpdateCallsNested(flags) ==
  (IF flags.text THEN <<[fn |-> "_updateTextOutput", id |-> cnvId \o "textOutput"]>> ELSE <<>>)
  \o (IF flags.grid THEN <<[fn |-> "_updateGridOutput", id |-> cnvId \o "gridOutput"]>> ELSE <<>>)
  \o (IF flags.text /\ flags.textLabel
      THEN <<[fn |-> "_updateTextOutput", id |-> cnvId \o "textOutputLabel"]>> ELSE <<>>)
  \o (IF flags.grid /\ flags.gridLabel
      THEN <<[fn |-> "_updateGridOutput", id |-> cnvId \o "gridOutputLabel"]>> ELSE <<>>)

\* The update calls of one regeneration, in the order they are made.
UpdateCalls(flags) ==
  (IF flags.text THEN <<[fn |-> "_updateTextOutput", id |-> cnvId \o "textOutput"]>> ELSE <<>>)
  \o (IF flags.grid THEN <<[fn |-> "_updateGridOutput", id |-> cnvId \o "gridOutput"]>> ELSE <<>>)
  \o (IF flags.textLabel
      THEN <<[fn |-> "_updateTextOutput", id |-> cnvId \o "textOutputLabel"]>> ELSE <<>>)
  \o (IF flags.gridLabel
      THEN <<[fn |-> "_updateGridOutput", id |-> cnvId \o "gridOutputLabel"]>> ELSE <<>>)

\* The condition comparing the registry object itself with the snapshot text:
\* an object is never identical to a string.
ShapesChangedObject(sh, prev) == TRUE

\* The condition of _updateAccsOutput.
ShapesChanged(sh, prev) == Stringify(sh) # prev

\* The registry that the outputs describe after a checkpoint: the registry of
\* the checkpoint if it regenerates and makes an update call, else as before.
Described(sh, prev, flags, gen) ==
  IF ShapesChanged(sh, prev) /\ UpdateCalls(flags) # <<>> THEN sh ELSE gen

\* _updateAccsOutput without the save of the snapshot.
UpdateWithoutSave ==
  /\ IF ShapesChanged(shapes, pShapes)
     THEN /\ regen' = TRUE
          /\ updated' = UpdateCalls(_accessibleOutputs)
     ELSE /\ regen' = FALSE
          /\ updated' = <<>>
  /\ pShapes' = pShapes
  /\ call' = [op |-> "_updateAccsOutput"]
  /\ lookups' = 0
  /\ ops' = ops + 1
  /\ generated' = Described(shapes, pShapes, _accessibleOutputs, generated)
  /\ UNCHANGED <<shapes, colors, _accessibleOutputs, width, height, gin, gout, envVars, loadVars>>

\* _updateAccsOutput emptying the registry once it has regenerated.
UpdateAndClear ==
  /\ IF ShapesChanged(shapes, pShapes)
     THEN /\ pShapes' = Stringify(shapes)
          /\ regen' = TRUE
          /\ updated' = UpdateCalls(_accessibleOutputs)
          /\ shapes' = <<>>
     ELSE /\ pShapes' = pShapes
          /\ regen' = FALSE
          /\ updated' = <<>>
          /\ shapes' = shapes
  /\ call' = [op |-> "_updateAccsOutput"]
  /\ lookups' = 0
  /\ ops' = ops + 1
  /\ generated' = Described(shapes, pShapes, _accessibleOutputs, generated)
  /\ UNCHANGED <<colors, _accessibleOutputs, width, height, gin, gout, envVars, loadVars>>

_updateAccsOutput ==
  /\ IF ShapesChanged(shapes, pShapes)
     THEN /\ pShapes' = Stringify(shapes)
          /\ regen' = TRUE
          /\ updated' = UpdateCalls(_accessibleOutputs)
     ELSE /\ pShapes' = pShapes
          /\ regen' = FALSE
          /\ updated' = <<>>
  /\ call' = [op |-> "_updateAccsOutput"]
  /\ lookups' = 0
  /\ ops' = ops + 1
  /\ generated' = Described(shapes, pShapes, _accessibleOutputs, generated)
  /\ UNCHANGED <<shapes, colors, _accessibleOutputs, width, height, gin, gout, envVars, loadVars>>

\* SetColor storing the new RGBA without looking its name up.
SetColorStale(cols, slot, slotRGBA, o) ==
  IF cols[slotRGBA] # o
  THEN [cols EXCEPT ![slotRGBA] = o]
  ELSE cols

\* The colour state after a call that offers the RGBA object o to a slot.
SetColor(cols, slot, slotRGBA, o) ==
  IF cols[slotRGBA] # o
  THEN [cols EXCEPT ![slotRGBA] = o, ![slot] = _rgbColorName(o)]
  ELSE cols

\* _accsBackground emptying the registry before it takes the snapshot.
BackgroundClearFirst(args) ==
  /\ shapes' = <<>>
  /\ pShapes' = Stringify(shapes')
  /\ colors' = SetColor(colors, "background", "backgroundRGBA", args)
  /\ lookups' = IF colors.backgroundRGBA # args THEN 1 ELSE 0
  /\ call' = [op |-> "_accsBackground", args |-> args]
  /\ regen' = FALSE
  /\ updated' = <<>>
  /\ ops' = ops + 1
  /\ generated' = generated
  /\ UNCHANGED <<_accessibleOutputs, width, height, gin, gout, envVars, loadVars>>

_accsBackground(args) ==
  /\ pShapes' = Stringify(shapes)
  /\ shapes' = <<>>
  /\ colors' = SetColor(colors, "background", "backgroundRGBA", args)
  /\ lookups' = IF colors.backgroundRGBA # args THEN 1 ELSE 0
  /\ call' = [op |-> "_accsBackground", args |-> args]
  /\ regen' = FALSE
  /\ updated' = <<>>
  /\ ops' = ops + 1
  /\ generated' = generated
  /\ UNCHANGED <<_accessibleOutputs, width, height, gin, gout, envVars, loadVars>>

_accsCanvasColors(f, args) ==
  /\ colors' = IF f = "fill" THEN SetColor(colors, "fill", "fillRGBA", args)
               ELSE IF f = "stroke" THEN SetColor(colors, "stroke", "strokeRGBA", args)
               ELSE colors
  /\ lookups' = IF \/ f = "fill" /\ colors.fillRGBA # args
                   \/ f = "stroke" /\ colors.strokeRGBA # args
                THEN 1 ELSE 0
  /\ call' = [op |-> "_accsCanvasColors", f |-> f, args |-> args]
  /\ regen' = FALSE
  /\ updated' = <<>>
  /\ ops' = ops + 1
  /\ generated' = generated
  /\ UNCHANGED <<shapes, pShapes, _accessibleOutputs, width, height, gin, gout, envVars, loadVars>>

_accsOutput(f, args) ==
  /\ shapes' = Store(shapes, Kind(f, args),
                     Include(Kind(f, args), args, colors, width, height))
  /\ call' = [op |-> "_accsOutput", f |-> f, args |-> args]
  /\ regen' = FALSE
  /\ updated' = <<>>
  /\ lookups' = 0
  /\ ops' = ops + 1
  /\ generated' = generated
  /\ UNCHANGED <<pShapes, colors, _accessibleOutputs, width, height, gin, gout, envVars, loadVars>>

(***************************************************************************)
(* Spec: the life of the registry over draws, colour calls, background     *)
(* clears and checkpoints.                                                 *)
(***************************************************************************)
Flags(t, g, tl, gl) == [text |-> t, grid |-> g, textLabel |-> tl, gridLabel |-> gl]

FlagChoices ==
  {Flags(FALSE, FALSE, FALSE, FALSE), Flags(TRUE, FALSE, FALSE, FALSE),
   Flags(FALSE, TRUE, FALSE, TRUE), Flags(TRUE, TRUE, TRUE, TRUE)}

CanvasSizes == {<<10, 20>>}

\* The draws a sketch makes: two rectangles that differ in place, a rectangle
\* and an ellipse of equal sizes, an ellipse of unequal sizes and a line.
DrawMenu ==
  {<<"rectangle", <<1, 1, 4, 2>>>>, <<"rectangle", <<6, 12, 4, 2>>>>,
   <<"rectangle", <<1, 1, 2, 2>>>>, <<"ellipse", <<5, 10, 4, 4>>>>,
   <<"ellipse", <<5, 10, 4, 2>>>>, <<"line", <<0, 0, 3, 4>>>>}

ColorCalls == {<<"fill", 1>>, <<"fill", 2>>, <<"fill", 3>>, <<"stroke", 1>>, <<"stroke", 3>>}

BackgroundArgs == {1, 2}

InitColors ==
  [background |-> "white", backgroundRGBA |-> 0,
   fill |-> "white", fillRGBA |-> 0,
   stroke |-> "black", strokeRGBA |-> 0]

InitObs ==
  /\ call = [op |-> "init"]
  /\ regen = FALSE
  /\ updated = <<>>
  /\ lookups = 0
  /\ ops = 0
  /\ generated = <<>>

\* The environment at construction: no frame measured yet, the default
\* target of 60 frames per second, a pixel density of 1, no call made.
InitEnv ==
  /\ _frameRate = 0
  /\ _targetFrameRate = 60
  /\ _pixelDensity = 1
  /\ ret = [kind |-> "none"]

(***************************************************************************)
(* The friendly error system.  A name and an error message are sequences   *)
(* of characters; a property is its name and whether its value is a        *)
(* function.                                                               *)
(***************************************************************************)
PI == <<"P", "I">>
HALF_PI == <<"H", "A", "L", "F", "_", "P", "I">>
TAU == <<"T", "A", "U">>
NameSin == <<"s", "i", "n">>
NameInt == <<"i", "n", "t">>
NamePoint == <<"p", "o", "i", "n", "t">>
NameWidth == <<"w", "i", "d", "t", "h">>
NameSetup == <<"_", "s", "e", "t", "u", "p">>

Prop(name, fn) == [name |-> name, fn |-> fn]

\* Object.getOwnPropertyNames(p5.prototype) before any sketch is constructed.
Prototype ==
  <<Prop(NameSetup, TRUE), Prop(NameInt, TRUE), Prop(NamePoint, TRUE),
    Prop(NameWidth, FALSE), Prop(NameSin, TRUE)>>

\* ... and after a construction has added the constants to the prototype.
PrototypeConstructed == Prototype \o <<Prop(PI, FALSE), Prop(TAU, FALSE)>>

\* Object.getOwnPropertyNames(require('../constants')).
Constants == <<Prop(PI, FALSE), Prop(HALF_PI, FALSE), Prop(TAU, FALSE)>>

LowerCase ==
  {"a", "d", "e", "f", "h", "i", "n", "o", "p", "s", "t", "u", "w", "x"}

\* The characters of the messages that \W matches.
NonWord == {" ", "'"}

\* name === name.toUpperCase()
IsUpperCase(name) == \A i \in 1..Len(name) : name[i] \notin LowerCase

\* The { name, type } of a property that passes the filter.
Symbol(prop) ==
  [name |-> prop.name,
   type |-> IF prop.fn THEN "function"
            ELSE IF IsUpperCase(prop.name) THEN "constant" ELSE "variable"]

\* getSymbols(obj) given the names found so far, and the names found after it.
RECURSIVE getSymbols(_, _)
getSymbols(obj, uniqueNamesFound) ==
  IF obj = <<>> THEN <<>>
  ELSE LET name == Head(obj).name
       IN IF name[1] = "_" \/ name \in uniqueNamesFound
          THEN getSymbols(Tail(obj), uniqueNamesFound)
          ELSE <<Symbol(Head(obj))>> \o getSymbols(Tail(obj), uniqueNamesFound \cup {name})

NamesOf(list) == {list[i].name : i \in 1..Len(list)}

\* One symbol put into a list sorted by b.name.length - a.name.length, behind
\* the symbols that are as long (the sort is stable).
RECURSIVE InsertByLength(_, _)
InsertByLength(sorted, sym) ==
  IF sorted = <<>> THEN <<sym>>
  ELSE IF Len(Head(sorted).name) >= Len(sym.name)
  THEN <<Head(sorted)>> \o InsertByLength(Tail(sorted), sym)
  ELSE <<sym>> \o sorted

RECURSIVE SortByLength(_)
SortByLength(list) ==
  IF list = <<>> THEN <<>>
  ELSE InsertByLength(SortByLength(SubSeq(list, 1, Len(list) - 1)), list[Len(list)])

\* defineMisusedAtTopLevelCode leaving the list in the order of the properties.
DefineUnsorted(prototype) ==
  LET first == getSymbols(prototype, {})
  IN first \o getSymbols(Constants, NamesOf(first))

\* The list that defineMisusedAtTopLevelCode builds.
defineMisusedAtTopLevelCode(prototype) ==
  LET first == getSymbols(prototype, {})
  IN SortByLength(first \o getSymbols(Constants, NamesOf(first)))

\* message.match(`\\W?${name}\\W`) !== null: the name, then a \W character.
Matches(message, name) ==
  \E i \in 1..Len(message) :
    /\ i + Len(name) <= Len(message)
    /\ SubSeq(message, i, i + Len(name) - 1) = name
    /\ message[i + Len(name)] \in NonWord

\* The index of the symbol at which some() stops, 0 if it runs to the end.
FirstMatch(list, message) ==
  IF message # <<>> /\ \E i \in 1..Len(list) : Matches(message, list[i].name)
  THEN CHOOSE i \in 1..Len(list) :
         /\ Matches(message, list[i].name)
         /\ \A j \in 1..(i - 1) : ~Matches(message, list[j].name)
  ELSE 0

\* What is handed to log for a symbol: the sentence that names it when
\* IS_MINIFIED is defined, else the key of the translation.
LogLine(symbol, minified) ==
  IF minified
  THEN [text |-> "Did you just try to use p5.js's",
        symbolName |-> IF symbol.type = "function" THEN symbol.name \o <<"(", ")">>
                       ELSE symbol.name,
        type |-> symbol.type]
  ELSE [text |-> "fes.misusedTopLevel"]

\* The friendly error system with no listener bound and the list of symbols
\* not built (misusedAtTopLevelCode is null): a page that has loaded.
FesIdle ==
  [imported |-> TRUE, importedAt |-> "complete", readyState |-> "complete",
   loaded |-> TRUE, errorListener |-> FALSE, loadListener |-> FALSE,
   misusedAtTopLevelCode |-> <<>>, built |-> FALSE, builds |-> 0,
   prototype |-> PrototypeConstructed, minified |-> FALSE, log |-> <<>>]

\* The page once the sketch runs: the library was imported into a loaded
\* document with a global draw function and has made its instance; the list
\* of symbols has not been asked for.
InitLoad ==
  /\ globalThis = [_setupDone |-> "boolean", mocha |-> FALSE,
                   setup |-> "undefined", draw |-> "function"]
  /\ instance = TRUE
  /\ fes = FesIdle

NoGeom ==
  /\ gin = [fn |-> "none"]
  /\ gout = [fn |-> "none"]

Init ==
  /\ shapes = <<>>
  /\ pShapes = ""
  /\ colors = InitColors
  /\ _accessibleOutputs \in FlagChoices
  /\ \E c \in CanvasSizes : width = c[1] /\ height = c[2]
  /\ InitObs
  /\ InitEnv
  /\ InitLoad
  /\ NoGeom

Draw == ops < MaxOps /\ \E d \in DrawMenu : _accsOutput(d[1], d[2])

SetColors == ops < MaxOps /\ \E c \in ColorCalls : _accsCanvasColors(c[1], c[2])

Background == ops < MaxOps /\ \E o \in BackgroundArgs : _accsBackground(o)

Checkpoint == ops < MaxOps /\ _updateAccsOutput

Next == Draw \/ SetColors \/ Background \/ Checkpoint

Spec == Init /\ [][Next]_vars

(***************************************************************************)
(* SpecDraw: draws of every kind over a wide range of arguments, on and    *)
(* off the canvas, into a fresh registry.                                  *)
(***************************************************************************)
DrawCanvasSizes == {<<10, 20>>, <<20, 10>>}

BoxPos  == {-3, 2, 8}
BoxSize == {-2, 4, 30}

\* A rectangle may have negative sizes; an ellipse is drawn with |w| and |h|.
EllipseSize == {2, 4, 30}

BoxArgs == {<<x, y, w, h>> : x \in BoxPos, y \in BoxPos, w \in BoxSize, h \in BoxSize}

EllipseArgs ==
  {<<x, y, w, h>> : x \in BoxPos, y \in BoxPos, w \in EllipseSize, h \in EllipseSize}

PointArgs == {<<0, 0>>, <<4, 8>>, <<6, 12>>, <<10, 20>>, <<11, 21>>, <<-1, 25>>, <<30, 5>>}

LinePts == {<<0, 0>>, <<3, 4>>, <<10, 20>>, <<-3, 25>>}
LineArgs == {p \o q : p \in LinePts, q \in LinePts}

TriPts == {<<0, 0>>, <<10, 0>>, <<0, 20>>, <<30, 30>>}
TriArgs == {p \o q \o r : p \in TriPts, q \in TriPts, r \in TriPts}

QuadArgs ==
  {p \o q \o r \o s : p \in {<<0, 0>>, <<2, 2>>}, q \in {<<10, 0>>, <<4, 2>>},
                      r \in {<<10, 20>>, <<4, 4>>, <<30, 30>>}, s \in {<<0, 20>>, <<2, 4>>}}

\* start and stop are quarter turns.
ArcArgs ==
  {<<5, 10, w, h, start, stop, mode>> :
     w \in {4, 8}, h \in {4, 8}, start \in {0, 1, 3}, stop \in 0..4,
     mode \in {"pie", "open", "chord"}}

WideDraws ==
  ({"rectangle"} \X BoxArgs) \cup ({"ellipse"} \X EllipseArgs)
  \cup ({"point"} \X PointArgs)
  \cup ({"line"} \X LineArgs) \cup ({"triangle"} \X TriArgs)
  \cup ({"quadrilateral"} \X QuadArgs) \cup ({"arc"} \X ArcArgs)

\* The colours at the start, and the colours after fill(red) and stroke(blue):
\* three different names in the three slots.
DrawColors ==
  {InitColors,
   [background |-> "white", backgroundRGBA |-> 0,
    fill |-> "red", fillRGBA |-> 1,
    stroke |-> "blue", strokeRGBA |-> 3]}

InitDraw ==
  /\ shapes = <<>>
  /\ pShapes = ""
  /\ colors \in DrawColors
  /\ _accessibleOutputs = Flags(FALSE, FALSE, FALSE, FALSE)
  /\ \E c \in DrawCanvasSizes : width = c[1] /\ height = c[2]
  /\ InitObs
  /\ InitEnv
  /\ InitLoad
  /\ NoGeom

DrawWide == ops < MaxDraws /\ \E d \in WideDraws : _accsOutput(d[1], d[2])

NextDraw == DrawWide

SpecDraw == InitDraw /\ [][NextDraw]_vars

(***************************************************************************)
(* SpecGeom: _getPos and _canvasLocator applied alone to a point.          *)
(***************************************************************************)
GeomCoords ==
  {Q(-1, 1), Q(0, 1), Q(4, 1), Q(6, 1), Q(8, 1), Q(10, 1), Q(21, 2), Q(11, 1),
   Q(12, 1), Q(20, 1), Q(119, 3), Q(40, 1), Q(161, 4), Q(50, 1), Q(60, 1),
   Q(90, 1), Q(95, 1), Q(100, 1), Q(101, 1), Q(110, 1)}

GeomCanvasSizes == {<<10, 20>>, <<100, 100>>}

InitGeom ==
  /\ shapes = <<>>
  /\ pShapes = ""
  /\ colors = InitColors
  /\ _accessibleOutputs = Flags(FALSE, FALSE, FALSE, FALSE)
  /\ \E c \in GeomCanvasSizes : width = c[1] /\ height = c[2]
  /\ InitObs
  /\ InitEnv
  /\ InitLoad
  /\ \E x \in GeomCoords, y \in GeomCoords : gin = [fn |-> "point", pt |-> <<x, y>>]
  /\ gout = [fn |-> "none"]

ApplyGetPos ==
  /\ gin.fn = "point"
  /\ gout' = [fn |-> "_getPos", val |-> _getPos(gin.pt, width, height)]
  /\ UNCHANGED <<progVars, obsVars, gin, envVars, loadVars>>

ApplyCanvasLocator ==
  /\ gin.fn = "point"
  /\ gout' = [fn |-> "_canvasLocator", val |-> _canvasLocator(gin.pt, width, height)]
  /\ UNCHANGED <<progVars, obsVars, gin, envVars, loadVars>>

NextGeom == ApplyGetPos \/ ApplyCanvasLocator

SpecGeom == InitGeom /\ [][NextGeom]_vars

(***************************************************************************)
(* Properties.                                                             *)
(***************************************************************************)
AllKinds ==
  {"rectangle", "square", "ellipse", "circle", "line", "point", "triangle",
   "quadrilateral", "arc"}

\* The record that the draw named by c makes in the colours and canvas given.
RecordOf(c, cols, w, h) == Include(Kind(c.f, c.args), c.args, cols, w, h)

\* C1: after any sequence of draws, colour calls, background clears and
\* checkpoints, every kind has one sequence in the registry and no two
\* records of that sequence are equal in all their fields.
C1_NoDuplicateRecords ==
  /\ \A i, j \in 1..Len(shapes) : i # j => shapes[i].kind # shapes[j].kind
  /\ \A i \in 1..Len(shapes) :
       \A a, b \in 1..Len(shapes[i].recs) :
         a # b => shapes[i].recs[a] # shapes[i].recs[b]

\* A draw has just repeated a record that is stored, but not as the last of
\* its kind: the scan went past the newest record and the draw was dropped.
C1_Witness ==
  /\ call.op = "_accsOutput"
  /\ LET recs == RecsOf(shapes, Kind(call.f, call.args))
         inc  == RecordOf(call, colors, width, height)
     IN /\ Len(recs) >= 2
        /\ \E y \in 1..(Len(recs) - 1) : recs[y] = inc
        /\ recs[Len(recs)] # inc

\* C2: a draw whose record equals, field by field, one already stored under
\* its kind leaves the registry unchanged; any other draw appends exactly that
\* record at the end of its kind's sequence (a new kind's sequence coming
\* last) and keeps every stored record, of every kind, in value and order.
C2_DrawStoresOnce ==
  [][call'.op = "_accsOutput" =>
       LET f   == Kind(call'.f, call'.args)
           inc == RecordOf(call', colors, width, height)
           old == RecsOf(shapes, f)
       IN IF \E y \in 1..Len(old) : old[y] = inc
          THEN shapes' = shapes
          ELSE /\ RecsOf(shapes', f) = Append(old, inc)
               /\ \A k \in AllKinds \ {f} : RecsOf(shapes', k) = RecsOf(shapes, k)
               /\ Len(shapes') = Len(shapes) + (IF HasKind(shapes, f) THEN 0 ELSE 1)
               /\ \A i \in 1..Len(shapes) : shapes'[i].kind = shapes[i].kind
               /\ pShapes' = pShapes /\ colors' = colors]_vars

\* Two rectangles that differ in their colour name only are stored, and the
\* draw that ran last is the second of them: the same rectangle drawn again
\* after the fill changed.
C2_Witness ==
  /\ call.op = "_accsOutput" /\ call.f = "rectangle"
  /\ LET recs == RecsOf(shapes, "rectangle")
     IN /\ Len(recs) = 2
        /\ recs[1].color # recs[2].color
        /\ [recs[1] EXCEPT !.color = recs[2].color] = recs[2]
        /\ recs[2] = RecordOf(call, colors, width, height)

\* C3: an ellipse draw with equal sizes is stored under circle and a rectangle
\* draw with equal sizes under square, one with unequal sizes under its own
\* kind; the sequence of every other kind is left as it was.
C3_EqualSizesReclassified ==
  [][(call'.op = "_accsOutput" /\ call'.f \in {"ellipse", "rectangle"}) =>
       LET eq     == Arg(call'.args, 2) = Arg(call'.args, 3)
           target == IF call'.f = "ellipse"
                     THEN (IF eq THEN "circle" ELSE "ellipse")
                     ELSE (IF eq THEN "square" ELSE "rectangle")
           new    == RecsOf(shapes', target)
       IN /\ \E y \in 1..Len(new) :
               new[y] = Include(target, call'.args, colors, width, height)
          /\ \A k \in AllKinds \ {target} : RecsOf(shapes', k) = RecsOf(shapes, k)]_vars

\* A rectangle with equal sizes has been drawn: there is a square and no rectangle.
C3_Witness ==
  /\ call.op = "_accsOutput" /\ call.f = "rectangle"
  /\ Arg(call.args, 2) = Arg(call.args, 3)
  /\ Arg(call.args, 0) # Arg(call.args, 1)
  /\ HasKind(shapes, "square") /\ ~HasKind(shapes, "rectangle")

\* C4: a background clear leaves the registry empty and the snapshot equal to
\* the JSON text of the registry as it was before the clear, and changes
\* neither the fill nor the stroke colour.
C4_BackgroundSnapshotsAndClears ==
  [][call'.op = "_accsBackground" =>
       /\ shapes' = <<>>
       /\ pShapes' = Stringify(shapes)
       /\ colors'.fill = colors.fill /\ colors'.fillRGBA = colors.fillRGBA
       /\ colors'.stroke = colors.stroke /\ colors'.strokeRGBA = colors.strokeRGBA]_vars

\* A background clear has emptied a registry that held records.
C4_Witness ==
  /\ call.op = "_accsBackground"
  /\ shapes = <<>>
  /\ pShapes # "" /\ pShapes # "{}"
  /\ colors.fill = "red"

\* C5: a checkpoint enters the regeneration exactly when the JSON text of the
\* registry differs from the snapshot; it then makes the update calls of the
\* flags that are set; when the texts are equal it makes no update call and
\* changes no state; after it the snapshot is the JSON text of the registry.
C5_CheckpointRegeneratesIffChanged ==
  [][call'.op = "_updateAccsOutput" =>
       /\ regen' <=> (Stringify(shapes) # pShapes)
       /\ regen' => updated' = UpdateCalls(_accessibleOutputs)
       /\ ~regen' => (updated' = <<>> /\ UNCHANGED progVars)
       /\ pShapes' = Stringify(shapes')
       /\ shapes' = shapes]_vars

\* A checkpoint has found a registry with records equal to its snapshot and
\* skipped the regeneration, with the text output enabled.
C5_Witness ==
  /\ call.op = "_updateAccsOutput"
  /\ ~regen /\ updated = <<>>
  /\ shapes # <<>>
  /\ _accessibleOutputs.text

\* C6: a checkpoint that directly follows a checkpoint enters no regeneration
\* and makes no update call.
C6_SecondCheckpointIdle ==
  [][(call.op = "_updateAccsOutput" /\ call'.op = "_updateAccsOutput") =>
       (~regen' /\ updated' = <<>>)]_vars

\* Three operations have run, the registry holds a record and the last
\* operation was a checkpoint that skipped: a draw, a checkpoint that
\* regenerated, and this second checkpoint.
C6_Witness ==
  /\ ops = 3
  /\ call.op = "_updateAccsOutput"
  /\ ~regen
  /\ shapes # <<>>
  /\ _accessibleOutputs.grid

\* The position name as the bands define it: the horizontal band is left
\* below 40% of the width, right above 60%, the vertical band top below 40%
\* of the height, bottom above 60%; the centre bands take the rest.
BandName(pt, w, h) ==
  LET horizontal == IF 5 * pt[1].n < 2 * w * pt[1].d THEN "left"
                    ELSE IF 5 * pt[1].n > 3 * w * pt[1].d THEN "right" ELSE "middle"
      vertical   == IF 5 * pt[2].n < 2 * h * pt[2].d THEN "top"
                    ELSE IF 5 * pt[2].n > 3 * h * pt[2].d THEN "bottom" ELSE "mid"
  IN IF vertical = "mid" /\ horizontal = "middle" THEN "middle"
     ELSE vertical \o " " \o horizontal

IntPoint(x, y) == <<Q(x, 1), Q(y, 1)>>

\* C7: _getPos names the bands with strict comparisons, so a coordinate at
\* exactly 40% or 60% is in the centre band; on a 100x100 canvas (10,10) is
\* top left, (50,10) top middle, (90,50) mid right and (50,50) middle.
C7_GetPosBands ==
  gout.fn = "_getPos" =>
    /\ gout.val = BandName(gin.pt, width, height)
    /\ (5 * gin.pt[1].n = 2 * width * gin.pt[1].d
        \/ 5 * gin.pt[1].n = 3 * width * gin.pt[1].d)
         => gout.val \in {"top middle", "middle", "bottom middle"}
    /\ (5 * gin.pt[2].n = 2 * height * gin.pt[2].d
        \/ 5 * gin.pt[2].n = 3 * height * gin.pt[2].d)
         => gout.val \in {"mid left", "middle", "mid right"}
    /\ (width = 100 /\ height = 100) =>
         /\ gin.pt = IntPoint(10, 10) => gout.val = "top left"
         /\ gin.pt = IntPoint(50, 10) => gout.val = "top middle"
         /\ gin.pt = IntPoint(90, 50) => gout.val = "mid right"
         /\ gin.pt = IntPoint(50, 50) => gout.val = "middle"

\* _getPos has been applied to the point at 40% of the width and 60% of the
\* height of a 100x100 canvas and named it middle.
C7_Witness ==
  /\ gout.fn = "_getPos"
  /\ width = 100 /\ height = 100
  /\ gin.pt = IntPoint(40, 60)
  /\ gout.val = "middle"

\* The grid index of a coordinate before the coercion: floor(x / size * 10).
RawIndex(x, size) == Floor(x.n * 10, x.d * size)

Coerced(i) == IF i = 10 THEN 9 ELSE i

\* C8 as stated: the cell is (floor(x / W * 10), floor(y / H * 10)) with an
\* index of 10 coerced to 9, and an index of 10 arises only when x = W
\* (respectively y = H).
C8_IndexTenOnlyAtEdge ==
  gout.fn = "_canvasLocator" =>
    /\ gout.val = [locX |-> Coerced(RawIndex(gin.pt[1], width)),
                   locY |-> Coerced(RawIndex(gin.pt[2], height))]
    /\ RawIndex(gin.pt[1], width) = 10 => gin.pt[1].n = width * gin.pt[1].d
    /\ RawIndex(gin.pt[2], height) = 10 => gin.pt[2].n = height * gin.pt[2].d

\* C8 as amended: the cell is (floor(x / W * 10), floor(y / H * 10)) with an
\* index of 10 coerced to 9, and an index of 10 arises exactly when
\* W <= x < 1.1 * W (respectively H <= y < 1.1 * H), x = W included; no other
\* index is changed; on a 100x100 canvas (95,95) and (100,100) give (9,9).
C8_CanvasLocatorCoercesTen ==
  gout.fn = "_canvasLocator" =>
    /\ gout.val = [locX |-> Coerced(RawIndex(gin.pt[1], width)),
                   locY |-> Coerced(RawIndex(gin.pt[2], height))]
    /\ RawIndex(gin.pt[1], width) = 10
         <=> (width * gin.pt[1].d <= gin.pt[1].n
              /\ 10 * gin.pt[1].n < 11 * width * gin.pt[1].d)
    /\ RawIndex(gin.pt[2], height) = 10
         <=> (height * gin.pt[2].d <= gin.pt[2].n
              /\ 10 * gin.pt[2].n < 11 * height * gin.pt[2].d)
    /\ (width = 100 /\ height = 100
        /\ gin.pt \in {IntPoint(95, 95), IntPoint(100, 100)})
         => gout.val = [locX |-> 9, locY |-> 9]

\* _canvasLocator has been applied to the corner (100,100) of a 100x100
\* canvas and given (9,9).
C8_Witness ==
  /\ gout.fn = "_canvasLocator"
  /\ width = 100 /\ height = 100
  /\ gin.pt = IntPoint(100, 100)
  /\ gout.val = [locX |-> 9, locY |-> 9]

\* C9: every stored record has a grid cell whose two components are in 0..9.
C9_GridCellInRange ==
  \A i \in 1..Len(shapes) : \A y \in 1..Len(shapes[i].recs) :
    /\ shapes[i].recs[y].loc.locX \in 0..9
    /\ shapes[i].recs[y].loc.locY \in 0..9

\* C10: every stored record that has an area has one in 0..100.
C10_AreaIsPercentage ==
  \A i \in 1..Len(shapes) : \A y \in 1..Len(shapes[i].recs) :
    "area" \in DOMAIN shapes[i].recs[y] => shapes[i].recs[y].area \in 0..100

(***************************************************************************)
(* SpecShape: _getMiddle and _getArea applied alone to a kind and its      *)
(* arguments.                                                              *)
(***************************************************************************)
ShapeCanvasSizes == {<<10, 20>>, <<100, 100>>}

\* Sizes odd and even, negative, and larger than the small canvas.
ShapeBoxArgs ==
  {<<x, y, w, h>> : x \in {-3, 2}, y \in {-3, 2}, w \in {-2, 3, 4, 20, 50},
                    h \in {-2, 3, 4, 20, 50}}

\* (10,0), (5,10) and (0,20) are on one line.
ShapeTriPts == {<<0, 0>>, <<10, 0>>, <<5, 10>>, <<0, 20>>, <<30, 30>>}
ShapeTriArgs == {p \o q \o r : p \in ShapeTriPts, q \in ShapeTriPts, r \in ShapeTriPts}

\* "text" stands for a kind that _getMiddle and _getArea do not name.
ShapeInputs ==
  ({"rectangle", "square", "ellipse", "circle"} \X ShapeBoxArgs)
  \cup ({"triangle"} \X ShapeTriArgs)
  \cup ({"quadrilateral"} \X QuadArgs)
  \cup ({"line"} \X LineArgs)
  \cup ({"point", "text"} \X PointArgs)
  \cup ({"arc"} \X ArcArgs)

InitShape ==
  /\ shapes = <<>>
  /\ pShapes = ""
  /\ colors = InitColors
  /\ _accessibleOutputs = Flags(FALSE, FALSE, FALSE, FALSE)
  /\ \E c \in ShapeCanvasSizes : width = c[1] /\ height = c[2]
  /\ InitObs
  /\ InitEnv
  /\ InitLoad
  /\ \E i \in ShapeInputs : gin = [fn |-> "shape", f |-> i[1], args |-> i[2]]
  /\ gout = [fn |-> "none"]

ApplyGetMiddle ==
  /\ gin.fn = "shape"
  /\ gout' = [fn |-> "_getMiddle", val |-> _getMiddle(gin.f, gin.args)]
  /\ UNCHANGED <<progVars, obsVars, gin, envVars, loadVars>>

ApplyGetArea ==
  /\ gin.fn = "shape"
  /\ gout' = [fn |-> "_getArea", val |-> _getArea(gin.f, gin.args, width, height)]
  /\ UNCHANGED <<progVars, obsVars, gin, envVars, loadVars>>

NextShape == ApplyGetMiddle \/ ApplyGetArea

SpecShape == InitShape /\ [][NextShape]_vars

(***************************************************************************)
(* Properties of SpecShape.                                                *)
(***************************************************************************)
\* n is an integer nearest to the fraction num / den (den > 0).
Nearest(n, num, den) == 2 * Abs(num - n * den) <= den

\* The fraction q equals num / den.
FracEq(q, num, den) == q.d > 0 /\ q.n * den = num * q.d

\* C11: for rectangle and square _getArea returns the integer nearest to
\* width * height * 100 / (canvasWidth * canvasHeight); 50 by 20 on a
\* 100 by 100 canvas gives 10.
C11_RectAreaIsRoundedPercentage ==
  (gout.fn = "_getArea" /\ gin.f \in {"rectangle", "square"}) =>
    /\ Nearest(gout.val, Arg(gin.args, 2) * Arg(gin.args, 3) * 100, width * height)
    /\ (Arg(gin.args, 2) = 50 /\ Arg(gin.args, 3) = 20 /\ width = 100 /\ height = 100)
         => gout.val = 10

C11_Witness ==
  /\ gout.fn = "_getArea"
  /\ gin.f = "rectangle"
  /\ Arg(gin.args, 2) = 50 /\ Arg(gin.args, 3) = 20
  /\ width = 100 /\ height = 100
  /\ gout.val = 10
\* The six orderings of a triangle's three vertices.
VertexOrders(a) ==
  LET A == <<Arg(a, 0), Arg(a, 1)>>
      B == <<Arg(a, 2), Arg(a, 3)>>
      C == <<Arg(a, 4), Arg(a, 5)>>
  IN {A \o B \o C, A \o C \o B, B \o A \o C, B \o C \o A, C \o A \o B, C \o B \o A}

\* A, B and C lie on one line (or coincide): AB and AC are parallel.
Collinear(a) ==
  (Arg(a, 2) - Arg(a, 0)) * (Arg(a, 5) - Arg(a, 1))
    = (Arg(a, 3) - Arg(a, 1)) * (Arg(a, 4) - Arg(a, 0))

\* C19: _getMiddle gives the rounded centre x + w/2, y + h/2 for rectangle,
\* ellipse, arc, circle and square, the mean of the vertices for triangle and
\* quadrilateral, the midpoint for line, and the first two arguments unchanged
\* for point and any other kind.
C19_MiddleByKind ==
  gout.fn = "_getMiddle" =>
    LET a == gin.args
        x == gout.val[1]
        y == gout.val[2]
    IN CASE gin.f \in {"rectangle", "ellipse", "arc", "circle", "square"} ->
              /\ x.d = 1 /\ Nearest(x.n, 2 * Arg(a, 0) + Arg(a, 2), 2)
              /\ y.d = 1 /\ Nearest(y.n, 2 * Arg(a, 1) + Arg(a, 3), 2)
         [] gin.f = "triangle" ->
              /\ FracEq(x, Arg(a, 0) + Arg(a, 2) + Arg(a, 4), 3)
              /\ FracEq(y, Arg(a, 1) + Arg(a, 3) + Arg(a, 5), 3)
         [] gin.f = "quadrilateral" ->
              /\ FracEq(x, Arg(a, 0) + Arg(a, 2) + Arg(a, 4) + Arg(a, 6), 4)
              /\ FracEq(y, Arg(a, 1) + Arg(a, 3) + Arg(a, 5) + Arg(a, 7), 4)
         [] gin.f = "line" ->
              /\ FracEq(x, Arg(a, 0) + Arg(a, 2), 2)
              /\ FracEq(y, Arg(a, 1) + Arg(a, 3), 2)
         [] OTHER ->
              /\ FracEq(x, Arg(a, 0), 1)
              /\ FracEq(y, Arg(a, 1), 1)

\* A triangle whose mean is not a whole number.
C19_Witness ==
  /\ gout.fn = "_getMiddle"
  /\ gin.f = "triangle"
  /\ gin.args = <<0, 0, 10, 0, 0, 20>>
  /\ gout.val = <<Q(10, 3), Q(20, 3)>>

\* C20: for a triangle _getArea returns
\* round(100 * |Ax(By-Cy) + Bx(Cy-Ay) + Cx(Ay-By)| / 2 / (canvasWidth * canvasHeight)),
\* the same for every ordering of the vertices, and 0 for collinear vertices.
C20_TriangleArea ==
  (gout.fn = "_getArea" /\ gin.f = "triangle") =>
    LET a  == gin.args
        Ax == Arg(a, 0)
        Ay == Arg(a, 1)
        Bx == Arg(a, 2)
        By == Arg(a, 3)
        Cx == Arg(a, 4)
        Cy == Arg(a, 5)
        twice == Abs(Ax * (By - Cy) + Bx * (Cy - Ay) + Cx * (Ay - By))
    IN /\ gout.val = Round(100 * twice, 2 * width * height)
       /\ \A o \in VertexOrders(a) : _getArea("triangle", o, width, height) = gout.val
       /\ Collinear(a) => gout.val = 0

\* A triangle of positive area, whose orderings turn both ways round.
C20_Witness ==
  /\ gout.fn = "_getArea"
  /\ gin.f = "triangle"
  /\ gin.args = <<0, 0, 5, 10, 30, 30>>
  /\ width = 10 /\ height = 20
  /\ gout.val = 38
(***************************************************************************)
(* Properties of the record of a draw.                                     *)
(***************************************************************************)
\* The position text of a line whose endpoints are named p1 and p2.
LineDescriptor(p1, p2) == IF p1 = p2 THEN "at " \o p1 ELSE "from " \o p1 \o " to " \o p2

\* C12: after a line draw with endpoints (x1,y1), (x2,y2) the line's record has
\* the stroke name as colour, the rounded distance between the endpoints as
\* length, and as position 'at <pos>' when _getPos names the same position for
\* both endpoints, 'from <pos1> to <pos2>' otherwise.
C12_LineRecord ==
  (call.op = "_accsOutput" /\ call.f = "line") =>
    LET x1 == Arg(call.args, 0)
        y1 == Arg(call.args, 1)
        x2 == Arg(call.args, 2)
        y2 == Arg(call.args, 3)
        p1 == _getPos(<<Q(x1, 1), Q(y1, 1)>>, width, height)
        p2 == _getPos(<<Q(x2, 1), Q(y2, 1)>>, width, height)
        recs == RecsOf(shapes, "line")
    IN \E y \in 1..Len(recs) :
         /\ recs[y].color = colors.stroke
         /\ recs[y].length = RoundDist(x1, y1, x2, y2)
         /\ recs[y].pos = LineDescriptor(p1, p2)

\* C13: a point's record has the stroke name and no area; a record of a kind
\* other than line and point has the fill name and an area; the colour is
\* never that of the other slot or of the background.
C13_ColorSlotByKind ==
  \A i \in 1..Len(shapes) : \A y \in 1..Len(shapes[i].recs) :
    LET k == shapes[i].kind
        r == shapes[i].recs[y]
    IN /\ k = "point" =>
            /\ r.color = colors.stroke
            /\ "area" \notin DOMAIN r
            /\ colors.fill # colors.stroke => r.color # colors.fill
            /\ colors.background # colors.stroke => r.color # colors.background
       /\ k \notin {"line", "point"} =>
            /\ r.color = colors.fill
            /\ "area" \in DOMAIN r
            /\ colors.stroke # colors.fill => r.color # colors.stroke
            /\ colors.background # colors.fill => r.color # colors.background

\* A point drawn while fill, stroke and background have three different names.
C13_Witness ==
  /\ call.op = "_accsOutput" /\ call.f = "point"
  /\ colors.fill = "red" /\ colors.stroke = "blue" /\ colors.background = "white"
  /\ RecsOf(shapes, "point") # <<>>
  /\ RecsOf(shapes, "point")[1].color = "blue"
  /\ "area" \notin DOMAIN RecsOf(shapes, "point")[1]
(***************************************************************************)
(* SpecFlags: checkpoints under every combination of the four flags.       *)
(***************************************************************************)
AllFlagChoices == {Flags(t, g, tl, gl) : t \in BOOLEAN, g \in BOOLEAN,
                                         tl \in BOOLEAN, gl \in BOOLEAN}

FlagDraws == {<<"rectangle", <<1, 1, 4, 2>>>>, <<"point", <<4, 8>>>>}

InitFlags ==
  /\ shapes = <<>>
  /\ pShapes = ""
  /\ colors = InitColors
  /\ _accessibleOutputs \in AllFlagChoices
  /\ \E c \in CanvasSizes : width = c[1] /\ height = c[2]
  /\ InitObs
  /\ InitEnv
  /\ InitLoad
  /\ NoGeom

DrawFlags == ops < MaxOps /\ \E d \in FlagDraws : _accsOutput(d[1], d[2])

BackgroundFlags == ops < MaxOps /\ _accsBackground(1)

CheckpointFlags == ops < MaxOps /\ _updateAccsOutput

NextFlags == DrawFlags \/ BackgroundFlags \/ CheckpointFlags

SpecFlags == InitFlags /\ [][NextFlags]_vars

\* The number of update calls in us made for the identifier id.
CallsFor(us, id) == Cardinality({i \in 1..Len(us) : us[i].id = id})

\* C14: when a checkpoint regenerates, the update for canvasId + 'textOutput',
\* 'gridOutput', 'textOutputLabel', 'gridOutputLabel' is made once if the flag
\* text, grid, textLabel, gridLabel is true and not at all if it is false,
\* whatever the other flags are.
C14_FlagsIndependent ==
  (call.op = "_updateAccsOutput" /\ regen) =>
    /\ CallsFor(updated, cnvId \o "textOutput") = (IF _accessibleOutputs.text THEN 1 ELSE 0)
    /\ CallsFor(updated, cnvId \o "gridOutput") = (IF _accessibleOutputs.grid THEN 1 ELSE 0)
    /\ CallsFor(updated, cnvId \o "textOutputLabel")
         = (IF _accessibleOutputs.textLabel THEN 1 ELSE 0)
    /\ CallsFor(updated, cnvId \o "gridOutputLabel")
         = (IF _accessibleOutputs.gridLabel THEN 1 ELSE 0)

\* A regeneration with only the label flag of the text output set.
C14_Witness ==
  /\ call.op = "_updateAccsOutput" /\ regen
  /\ _accessibleOutputs = Flags(FALSE, FALSE, TRUE, FALSE)
  /\ updated = <<[fn |-> "_updateTextOutput", id |-> "defaultCanvas0textOutputLabel"]>>

(***************************************************************************)
(* Properties of Spec: who writes the registry, and the colour slots.      *)
(***************************************************************************)
\* Every record of sh is a record of the same kind in sh2.
KeepsRecords(sh, sh2) ==
  \A i \in 1..Len(sh) : \A y \in 1..Len(sh[i].recs) :
    \E z \in 1..Len(RecsOf(sh2, sh[i].kind)) : RecsOf(sh2, sh[i].kind)[z] = sh[i].recs[y]

\* C15: the registry is changed only by a draw, which adds records, and by a
\* background clear, which empties it; a checkpoint and a colour call leave it
\* exactly as it was.
C15_RegistryWriters ==
  [][/\ call'.op \in {"_updateAccsOutput", "_accsCanvasColors"} => shapes' = shapes
     /\ shapes' # shapes => call'.op \in {"_accsOutput", "_accsBackground"}
     /\ call'.op = "_accsOutput" => KeepsRecords(shapes, shapes')
     /\ call'.op = "_accsBackground" => shapes' = <<>>]_vars

\* A checkpoint has regenerated from a registry that holds records, and the
\* records are still there.
C15_Witness ==
  /\ call.op = "_updateAccsOutput" /\ regen
  /\ shapes # <<>>
  /\ pShapes = Stringify(shapes)

\* The RGBA array stored in a slot has the contents of the array o.
SameRGBA(stored, o) == stored # 0 /\ Levels(stored) = Levels(o)

\* C18: a colour call looks the name up only if the new RGBA value differs
\* from the stored one; with an equal value it makes no lookup and changes
\* nothing; a fill call never changes the stroke slot nor a stroke call the
\* fill slot.
C18_LookupOnlyWhenDifferent ==
  [][(call'.op \in {"_accsCanvasColors", "_accsBackground"}) =>
       LET stored == IF call'.op = "_accsBackground" THEN colors.backgroundRGBA
                     ELSE IF call'.f = "fill" THEN colors.fillRGBA
                     ELSE colors.strokeRGBA
           same   == SameRGBA(stored, call'.args)
       IN /\ lookups' = 1 => ~same
          /\ same => (lookups' = 0 /\ colors' = colors)
          /\ (call'.op = "_accsCanvasColors" /\ call'.f = "fill") =>
               (colors'.stroke = colors.stroke /\ colors'.strokeRGBA = colors.strokeRGBA)
          /\ (call'.op = "_accsCanvasColors" /\ call'.f = "stroke") =>
               (colors'.fill = colors.fill /\ colors'.fillRGBA = colors.fillRGBA)]_vars
(***************************************************************************)
(* SpecEnv: the frame rate and pixel density calls of the environment.     *)
(* A JavaScript argument is a record of its typeof and its value.          *)
(***************************************************************************)
Num(n) == [t |-> "number", v |-> n]
Str(x) == [t |-> "string", v |-> x]
Undefined == [t |-> "undefined"]

\* What a call hands back: a value, the sketch instance, or a thrown Error.
Value(v) == [kind |-> "value", val |-> v]
This == [kind |-> "this"]
Throw(msg) == [kind |-> "throw", msg |-> msg]

FpsArgs == {Undefined, Str("30"), Num(-5), Num(0), Num(30), Num(60)}

DensityArgs == {Undefined, Num(1), Num(2)}

\* The rates the draw loop measures.
MeasuredRates == {30, 60}

\* The canvas size after resizeCanvas(w, h, noRedraw).
resizeCanvas(w, h) == [width |-> w, height |-> h]

\* The bookkeeping of a step that is no registry operation.
EnvObs(c) ==
  /\ call' = c
  /\ regen' = FALSE
  /\ updated' = <<>>
  /\ lookups' = 0
  /\ ops' = ops + 1
  /\ generated' = generated

\* FrameRateBody storing every accepted fps in _frameRate, not only 0.
FrameRateBodyStoresRate(op, fps) ==
  /\ IF fps.t # "number" \/ fps.v < 0
     THEN /\ ret' = Value(_frameRate)
          /\ UNCHANGED <<_frameRate, _targetFrameRate>>
     ELSE /\ _targetFrameRate' = fps.v
          /\ _frameRate' = fps.v
          /\ ret' = This
  /\ EnvObs([op |-> op, fps |-> fps])
  /\ UNCHANGED <<progVars, _pixelDensity, gin, gout, loadVars>>

\* The body of frameRate(fps), entered under the name op.
FrameRateBody(op, fps) ==
  /\ IF fps.t # "number" \/ fps.v < 0
     THEN /\ ret' = Value(_frameRate)
          /\ UNCHANGED <<_frameRate, _targetFrameRate>>
     ELSE /\ _targetFrameRate' = fps.v
          /\ _frameRate' = IF fps.v = 0 THEN fps.v ELSE _frameRate
          /\ ret' = This
  /\ EnvObs([op |-> op, fps |-> fps])
  /\ UNCHANGED <<progVars, _pixelDensity, gin, gout, loadVars>>

frameRate(fps) == FrameRateBody("frameRate", fps)

\* getFrameRate() is this.frameRate() with no argument.
getFrameRate == FrameRateBody("getFrameRate", Undefined)

setFrameRate(fps) == FrameRateBody("setFrameRate", fps)

pixelDensity(val) ==
  /\ IF val.t # "number"
     THEN /\ ret' = Throw("invalid parameter, must be a number")
          /\ UNCHANGED <<_pixelDensity, width, height>>
     ELSE /\ _pixelDensity' = val.v
          /\ width' = resizeCanvas(width * val.v, height * val.v).width
          /\ height' = resizeCanvas(width * val.v, height * val.v).height
          /\ ret' = This
  /\ EnvObs([op |-> "pixelDensity", val |-> val])
  /\ UNCHANGED <<shapes, pShapes, colors, _accessibleOutputs, _frameRate,
                 _targetFrameRate, gin, gout, loadVars>>

displayDensity ==
  /\ ret' = Value(_pixelDensity)
  /\ EnvObs([op |-> "displayDensity"])
  /\ UNCHANGED <<progVars, _frameRate, _targetFrameRate, _pixelDensity, gin, gout, loadVars>>

\* A frame has been drawn and the draw loop has measured its rate.
FrameDrawn(rate) ==
  /\ _targetFrameRate > 0
  /\ _frameRate' = rate
  /\ ret' = [kind |-> "none"]
  /\ EnvObs([op |-> "frame"])
  /\ UNCHANGED <<progVars, _targetFrameRate, _pixelDensity, gin, gout, loadVars>>

InitEnvSpec ==
  /\ shapes = <<>>
  /\ pShapes = ""
  /\ colors = InitColors
  /\ _accessibleOutputs = Flags(FALSE, FALSE, FALSE, FALSE)
  /\ \E c \in CanvasSizes : width = c[1] /\ height = c[2]
  /\ InitObs
  /\ InitEnv
  /\ InitLoad
  /\ NoGeom

CallFrameRate == ops < MaxOps /\ \E fps \in FpsArgs : frameRate(fps)

CallGetFrameRate == ops < MaxOps /\ getFrameRate

CallSetFrameRate == ops < MaxOps /\ \E fps \in FpsArgs : setFrameRate(fps)

CallPixelDensity == ops < MaxOps /\ \E val \in DensityArgs : pixelDensity(val)

CallDisplayDensity == ops < MaxOps /\ displayDensity

Frame == ops < MaxOps /\ \E rate \in MeasuredRates : FrameDrawn(rate)

NextEnv ==
  \/ CallFrameRate \/ CallGetFrameRate \/ CallSetFrameRate
  \/ CallPixelDensity \/ CallDisplayDensity \/ Frame

SpecEnv == InitEnvSpec /\ [][NextEnv]_vars

\* C16: frameRate called with an argument that is not a number, or that is a
\* number not above 0 (0 included), returns the current frame rate _frameRate
\* and not the sketch instance.
C16_FrameRateReturnsRate ==
  [][(call'.op = "frameRate" /\ (call'.fps.t # "number" \/ call'.fps.v <= 0)) =>
       ret' = Value(_frameRate)]_vars

\* C17: pixelDensity called with no argument returns the current pixel density
\* and changes no state.
C17_PixelDensityGetter ==
  [][(call'.op = "pixelDensity" /\ call'.val = Undefined) =>
       /\ ret' = Value(_pixelDensity)
       /\ UNCHANGED <<progVars, _frameRate, _targetFrameRate, _pixelDensity>>]_vars
\* The argument of a frameRate or setFrameRate call is a number >= 0.
Accepted(fps) == fps.t = "number" /\ fps.v >= 0

AddAccsOutputAnyFlag ==
  /\ _accessibleOutputs' = IF _accessibleOutputs = Undefined
                           THEN Flags(FALSE, FALSE, FALSE, FALSE)
                           ELSE _accessibleOutputs
  /\ ret' = Value(\/ _accessibleOutputs'.grid \/ _accessibleOutputs'.text
                  \/ _accessibleOutputs'.textLabel \/ _accessibleOutputs'.gridLabel)
  /\ EnvObs([op |-> "_addAccsOutput"])
  /\ UNCHANGED <<shapes, pShapes, colors, width, height, _frameRate,
                 _targetFrameRate, _pixelDensity, gin, gout, loadVars>>

_addAccsOutput ==
  /\ _accessibleOutputs' = IF _accessibleOutputs = Undefined
                           THEN Flags(FALSE, FALSE, FALSE, FALSE)
                           ELSE _accessibleOutputs
  /\ ret' = Value(_accessibleOutputs'.grid \/ _accessibleOutputs'.text)
  /\ EnvObs([op |-> "_addAccsOutput"])
  /\ UNCHANGED <<shapes, pShapes, colors, width, height, _frameRate,
                 _targetFrameRate, _pixelDensity, gin, gout, loadVars>>

InitAccs ==
  /\ shapes = <<>>
  /\ pShapes = ""
  /\ colors = InitColors
  /\ _accessibleOutputs \in AllFlagChoices \cup {Undefined}
  /\ \E c \in CanvasSizes : width = c[1] /\ height = c[2]
  /\ InitObs
  /\ InitEnv
  /\ InitLoad
  /\ NoGeom

AskAccs == ops < MaxOps /\ _addAccsOutput

DrawAccs == ops < MaxOps /\ \E d \in FlagDraws : _accsOutput(d[1], d[2])

NextAccs == AskAccs \/ DrawAccs

SpecAccs == InitAccs /\ [][NextAccs]_vars

\* C25: _addAccsOutput returns true exactly when the grid or the text flag is
\* true, the label flags alone not making it true; with no flags object it
\* creates one with the four flags false and returns false; it never modifies
\* a flags object that exists.
C25_AddAccsOutput ==
  [][call'.op = "_addAccsOutput" =>
       IF _accessibleOutputs = Undefined
       THEN /\ _accessibleOutputs' =
                 [text |-> FALSE, grid |-> FALSE, textLabel |-> FALSE, gridLabel |-> FALSE]
            /\ ret' = Value(FALSE)
       ELSE /\ _accessibleOutputs' = _accessibleOutputs
            /\ ret' = Value(_accessibleOutputs.grid \/ _accessibleOutputs.text)
            /\ (~_accessibleOutputs.grid /\ ~_accessibleOutputs.text) => ret' = Value(FALSE)]_vars

\* Asked with only the two label flags set: the answer is false.
C25_Witness ==
  /\ call.op = "_addAccsOutput"
  /\ _accessibleOutputs = Flags(FALSE, FALSE, TRUE, TRUE)
  /\ ret = Value(FALSE)
\* Two registries hold the same records under the same kinds.
SameContents(a, b) == \A k \in AllKinds : RecsOf(a, k) = RecsOf(b, k)

\* C26: after every checkpoint with an output flag enabled, whatever draws,
\* colour calls and background clears came before it, the registry from which
\* the output was last regenerated equals the registry as it is now.
C26_DescriptionNeverStale ==
  (call.op = "_updateAccsOutput" /\ UpdateCalls(_accessibleOutputs) # <<>>) =>
    SameContents(generated, shapes)

\* The name that a slot has for the RGBA stored in it; a slot that no call
\* has written yet (RGBA undefined) has the name of construction.
NameMatches(name, rgba, initial) ==
  IF rgba = 0 THEN name = initial ELSE name = _rgbColorName(rgba)

\* C27: after any sequence of fill, stroke and background calls each cached
\* name is the named-colour lookup of the RGBA stored in the same slot.
C27_NamesMatchStoredRGBA ==
  /\ NameMatches(colors.fill, colors.fillRGBA, InitColors.fill)
  /\ NameMatches(colors.stroke, colors.strokeRGBA, InitColors.stroke)
  /\ NameMatches(colors.background, colors.backgroundRGBA, InitColors.background)

\* All three slots have been written, with different arrays.
C27_Witness ==
  /\ colors.fillRGBA = 3 /\ colors.fill = "blue"
  /\ colors.strokeRGBA = 1 /\ colors.stroke = "red"
  /\ colors.backgroundRGBA = 2 /\ colors.background = "red"
(***************************************************************************)
(* SpecGlobal: _globalInit, run at import, on every global object.         *)
(* _setupDone, setup and draw are kept as their typeof; mocha as its       *)
(* truthiness.                                                             *)
(***************************************************************************)
GlobalObjects ==
  [_setupDone : {"undefined", "boolean"}, mocha : BOOLEAN,
   setup : {"undefined", "function", "number"},
   draw : {"undefined", "function", "number"}]

\* new p5() in global mode: the instance is kept in p5.instance and its
\* properties, _setupDone among them, are bound to the global object.
NewP5(g) == [g EXCEPT !._setupDone = "boolean"]

\* The bookkeeping of a _globalInit step.
GlobalObs(created, warned) ==
  /\ call' = [op |-> "_globalInit", created |-> created, warned |-> warned]
  /\ regen' = FALSE
  /\ updated' = <<>>
  /\ lookups' = 0
  /\ ops' = ops + 1
  /\ generated' = generated

\* _globalInit without the test of globalThis.mocha.
GlobalInitIgnoresMocha ==
  /\ IF globalThis._setupDone # "undefined"
     THEN /\ GlobalObs(FALSE, TRUE)
          /\ UNCHANGED <<globalThis, instance>>
     ELSE IF /\ (globalThis.setup = "function" \/ globalThis.draw = "function")
             /\ ~instance
     THEN /\ globalThis' = NewP5(globalThis)
          /\ instance' = TRUE
          /\ GlobalObs(TRUE, FALSE)
     ELSE /\ GlobalObs(FALSE, FALSE)
          /\ UNCHANGED <<globalThis, instance>>
  /\ UNCHANGED <<progVars, gin, gout, envVars, fes>>

_globalInit ==
  /\ IF globalThis._setupDone # "undefined"
     THEN /\ GlobalObs(FALSE, TRUE)
          /\ UNCHANGED <<globalThis, instance>>
     ELSE IF /\ ~globalThis.mocha
             /\ (globalThis.setup = "function" \/ globalThis.draw = "function")
             /\ ~instance
     THEN /\ globalThis' = NewP5(globalThis)
          /\ instance' = TRUE
          /\ GlobalObs(TRUE, FALSE)
     ELSE /\ GlobalObs(FALSE, FALSE)
          /\ UNCHANGED <<globalThis, instance>>
  /\ UNCHANGED <<progVars, gin, gout, envVars, fes>>

InitGlobal ==
  /\ shapes = <<>>
  /\ pShapes = ""
  /\ colors = InitColors
  /\ _accessibleOutputs = Flags(FALSE, FALSE, FALSE, FALSE)
  /\ \E c \in CanvasSizes : width = c[1] /\ height = c[2]
  /\ InitObs
  /\ InitEnv
  /\ NoGeom
  /\ globalThis \in GlobalObjects
  /\ instance \in BOOLEAN
  /\ fes = FesIdle

\* The library is imported, once more for every duplicate import.
Import == ops < MaxOps /\ _globalInit

NextGlobal == Import

SpecGlobal == InitGlobal /\ [][NextGlobal]_vars

\* C24: _globalInit creates an instance only when _setupDone is undefined,
\* mocha is falsy, setup or draw is a function on the global object and
\* p5.instance is not set; otherwise it creates none, and with _setupDone
\* defined it only warns of the duplicate import.
C24_GlobalInitCreates ==
  [][call'.op = "_globalInit" =>
       LET all == /\ globalThis._setupDone = "undefined"
                  /\ ~globalThis.mocha
                  /\ (globalThis.setup = "function" \/ globalThis.draw = "function")
                  /\ ~instance
       IN /\ call'.created <=> all
          /\ ~call'.created => (instance' = instance /\ globalThis' = globalThis)
          /\ call'.created => instance'
          /\ call'.warned <=> globalThis._setupDone # "undefined"
          /\ call'.warned => ~call'.created]_vars

\* An instance made for a global draw function alone, setup being no function.
C24_Witness ==
  /\ call.op = "_globalInit" /\ call.created
  /\ globalThis.setup = "number" /\ globalThis.draw = "function"
  /\ instance
(***************************************************************************)
(* SpecFes: the import of fes_core.js into a document, the 'load' event,   *)
(* 'error' events, and direct calls of _helpForMisusedAtTopLevelCode.      *)
(***************************************************************************)
IsUndefined == <<" ", "i", "s", " ", "u", "n", "d", "e", "f", "i", "n", "e", "d">>

\* e.message: the browsers' wordings for several symbols, a name that is no
\* symbol, a symbol with nothing after it, and no message at all.
Messages ==
  {HALF_PI \o IsUndefined, <<"'">> \o PI \o <<"'">> \o IsUndefined,
   NameSin \o IsUndefined, NamePoint \o IsUndefined, NameWidth \o IsUndefined,
   <<"x">> \o IsUndefined, PI, <<>>}

\* The bookkeeping of a step of the page.
FesObs(c) ==
  /\ call' = c
  /\ regen' = FALSE
  /\ updated' = <<>>
  /\ lookups' = 0
  /\ ops' = ops + 1
  /\ generated' = generated

\* fes after helpForMisusedAtTopLevelCode(e, log) with a list built by define.
HelpedWith(f, message, list) ==
  LET k == FirstMatch(list, message)
  IN [f EXCEPT !.misusedAtTopLevelCode = list,
               !.built = TRUE,
               !.builds = IF f.built THEN @ ELSE @ + 1,
               !.log = IF k = 0 THEN <<>> ELSE <<LogLine(list[k], f.minified)>>]

\* helpForMisusedAtTopLevelCode building its list without the sort.
HelpedUnsorted(f, message) ==
  HelpedWith(f, message,
             IF f.built THEN f.misusedAtTopLevelCode ELSE DefineUnsorted(f.prototype))

\* fes after helpForMisusedAtTopLevelCode(e, log).
Helped(f, message) ==
  HelpedWith(f, message,
             IF f.built THEN f.misusedAtTopLevelCode
             ELSE defineMisusedAtTopLevelCode(f.prototype))

\* The symbol that a call of help on fes f stops at, or "none".
Stopped(f, message) ==
  LET k == FirstMatch(f.misusedAtTopLevelCode, message)
  IN IF k = 0 THEN [type |-> "none"] ELSE f.misusedAtTopLevelCode[k]

\* The module body: the list is null, help is exposed, and the listeners are
\* bound unless the document is complete.
ImportFes ==
  /\ ~fes.imported
  /\ fes' = [fes EXCEPT !.imported = TRUE,
                        !.importedAt = fes.readyState,
                        !.misusedAtTopLevelCode = <<>>,
                        !.built = FALSE,
                        !.errorListener = (fes.readyState # "complete"),
                        !.loadListener = (fes.readyState # "complete")]
  /\ FesObs([op |-> "import"])
  /\ UNCHANGED <<progVars, gin, gout, envVars, globalThis, instance>>

\* The 'load' event leaving the error listener bound.
LoadKeepsListener ==
  /\ ~fes.loaded
  /\ fes' = [fes EXCEPT !.readyState = "complete", !.loaded = TRUE]
  /\ FesObs([op |-> "load"])
  /\ UNCHANGED <<progVars, gin, gout, envVars, globalThis, instance>>

\* The 'load' event of the window: the document is complete, and the load
\* listener, if bound, removes the error listener.
LoadEvent ==
  /\ ~fes.loaded
  /\ fes' = [fes EXCEPT !.readyState = "complete",
                        !.loaded = TRUE,
                        !.errorListener = IF fes.loadListener THEN FALSE ELSE @]
  /\ FesObs([op |-> "load"])
  /\ UNCHANGED <<progVars, gin, gout, envVars, globalThis, instance>>

\* An 'error' event of the window with e.message = message.
ErrorEvent(message) ==
  /\ IF fes.errorListener
     THEN /\ fes' = Helped(fes, message)
          /\ FesObs([op |-> "error", message |-> message, invoked |-> TRUE,
                     symbol |-> Stopped(fes', message)])
     ELSE /\ fes' = [fes EXCEPT !.log = <<>>]
          /\ FesObs([op |-> "error", message |-> message, invoked |-> FALSE,
                     symbol |-> [type |-> "none"]])
  /\ UNCHANGED <<progVars, gin, gout, envVars, globalThis, instance>>

\* p5.prototype._helpForMisusedAtTopLevelCode(e, log) called directly.
_helpForMisusedAtTopLevelCode(message) ==
  /\ fes.imported
  /\ fes' = Helped(fes, message)
  /\ FesObs([op |-> "help", message |-> message, invoked |-> TRUE,
             symbol |-> Stopped(fes', message)])
  /\ UNCHANGED <<progVars, gin, gout, envVars, globalThis, instance>>

\* The document while it loads, or complete with 'load' still to come, or loaded.
Documents ==
  {<<"loading", FALSE>>, <<"interactive", FALSE>>, <<"complete", FALSE>>,
   <<"complete", TRUE>>}

InitFes ==
  /\ shapes = <<>>
  /\ pShapes = ""
  /\ colors = InitColors
  /\ _accessibleOutputs = Flags(FALSE, FALSE, FALSE, FALSE)
  /\ \E c \in CanvasSizes : width = c[1] /\ height = c[2]
  /\ InitObs
  /\ InitEnv
  /\ NoGeom
  /\ globalThis = [_setupDone |-> "undefined", mocha |-> FALSE,
                   setup |-> "function", draw |-> "function"]
  /\ instance = FALSE
  /\ \E d \in Documents, proto \in {Prototype, PrototypeConstructed}, m \in BOOLEAN :
       fes = [imported |-> FALSE, importedAt |-> "none", readyState |-> d[1],
              loaded |-> d[2], errorListener |-> FALSE, loadListener |-> FALSE,
              misusedAtTopLevelCode |-> <<>>, built |-> FALSE, builds |-> 0,
              prototype |-> proto, minified |-> m, log |-> <<>>]

DoImport == ops < MaxOps /\ ImportFes

Load == ops < MaxOps /\ LoadEvent

Error == ops < MaxOps /\ \E m \in Messages : ErrorEvent(m)

Help == ops < MaxOps /\ \E m \in Messages : _helpForMisusedAtTopLevelCode(m)

NextFes == DoImport \/ Load \/ Error \/ Help

SpecFes == InitFes /\ [][NextFes]_vars

\* The symbols of the built list whose name matches the message.
Matching(f, message) ==
  {i \in 1..Len(f.misusedAtTopLevelCode) :
     message # <<>> /\ Matches(message, f.misusedAtTopLevelCode[i].name)}

\* C22: for one error handed to helpForMisusedAtTopLevelCode at most one
\* message is logged, and the symbol it is logged for is as long as any symbol
\* whose name matches the error message; the list is built at most once, on a
\* call of help, and has no name that starts with '_' and no name twice.
C22_MostSpecificSymbolOnce ==
  [][/\ (call'.op \in {"error", "help"} /\ call'.invoked) =>
          /\ Len(fes'.log) <= 1
          /\ Len(fes'.log) = 1 <=> Matching(fes', call'.message) # {}
          /\ Len(fes'.log) = 1 =>
               /\ call'.symbol.type # "none"
               /\ Matches(call'.message, call'.symbol.name)
               /\ \A i \in Matching(fes', call'.message) :
                    Len(fes'.misusedAtTopLevelCode[i].name) <= Len(call'.symbol.name)
               /\ fes'.minified =>
                    fes'.log[1].symbolName \in
                      {call'.symbol.name, call'.symbol.name \o <<"(", ")">>}
     /\ fes'.builds <= 1
     /\ fes'.builds # fes.builds => (call'.op \in {"error", "help"} /\ call'.invoked)
     /\ fes.built => fes'.misusedAtTopLevelCode = fes.misusedAtTopLevelCode
     /\ fes'.built =>
          LET list == fes'.misusedAtTopLevelCode
          IN /\ \A i \in 1..Len(list) : list[i].name[1] # "_"
             /\ \A i, j \in 1..Len(list) : i # j => list[i].name # list[j].name]_vars

\* 'HALF_PI is undefined' has been handed over: HALF_PI and PI both match and
\* the one message is for HALF_PI.
C22_Witness ==
  /\ call.op = "help" /\ call.message = HALF_PI \o IsUndefined
  /\ call.symbol.type = "constant" /\ call.symbol.name = HALF_PI
  /\ Cardinality(Matching(fes, call.message)) = 2
  /\ Len(fes.log) = 1 /\ fes.builds = 1

\* C23: the error listener is bound only if the document is not complete at
\* import, and the 'load' event unbinds it: an 'error' event after 'load'
\* never invokes helpForMisusedAtTopLevelCode, one between the binding and
\* 'load' does.
C23_ListenerUntilLoad ==
  [][/\ fes'.errorListener =>
          (fes'.imported /\ fes'.importedAt # "complete" /\ ~fes'.loaded)
     /\ call'.op = "import" =>
          (fes'.errorListener <=> fes.readyState # "complete")
     /\ call'.op = "error" =>
          /\ fes.loaded => ~call'.invoked
          /\ (fes.imported /\ fes.importedAt # "complete" /\ ~fes.loaded) => call'.invoked
          /\ call'.invoked => (fes.imported /\ fes.importedAt # "complete")]_vars

\* An 'error' event after 'load', on a page whose listener had been bound, has
\* invoked nothing.
C23_Witness ==
  /\ call.op = "error" /\ ~call.invoked
  /\ fes.importedAt = "loading" /\ fes.loaded
  /\ call.message = NameSin \o IsUndefined
====
